---- MODULE Spec2Model ----
(***************************************************************************)
(* Model of the per-socket asynchronous I/O engine of src/pal/pal_sk_win.c *)
(* (one pal_socket_t with its open, send and recv pal_socket_async_t).     *)
(*                                                                         *)
(* Caller threads run the public entry points (pal_socket_open,            *)
(* pal_socket_close, pal_socket_can_send, pal_socket_can_recv); pool       *)
(* threads run pal_socket_async_complete_from_OVERLAPPED.  Every function  *)
(* is cut into steps that hold one access to shared memory, one OS call or *)
(* one client callback, so that the interleavings of the threads are those *)
(* of the C code.  The OS and the client are nondeterministic.             *)
(***************************************************************************)
EXTENDS Integers, Naturals, Sequences, FiniteSets, TLC

\* ---------------------------------------------------------------- bounds
MaxAddrs == 2      \* longest address list the resolver returns
MaxBufs  == 1      \* buffers the client supplies per direction
MaxTried == 3      \* length of the recorded log of open attempts

\* ---------------------------------------------------------------- sets
CallerIds == {1, 2}     \* threads that call the public entry points
PoolIds   == {3, 4}     \* threads of the completion port's pool
Ops     == {"open", "send", "recv"}
Dirs    == {"send", "recv"}

VARIABLES
    props,          \* itf.props:  sock_type and passive flag
    sock_fd,        \* "INVALID" | "open" | "stale" (value of a closed handle)
    prx_ai,         \* TRUE while the resolved address list is held
    prx_ai_count,
    prx_ai_cur,
    pending,        \* [Ops -> Int]    pal_socket_async_t.pending
    begin,          \* [Ops -> tag]    pal_socket_async_t.begin
    buffer,         \* [Ops -> tag]    pal_socket_async_t.buffer
    close_context,  \* TRUE while sock->close_context is set
    os_out,         \* [Ops -> Nat]    overlapped operations the OS still owes a completion for
    os_fds,         \* descriptors open at the OS
    bad_close,      \* closesocket was called on an already closed descriptor
    acc_objs,       \* accepted socket objects accept_begin created that were neither
                    \* freed nor handed to the client
    th,             \* [Threads -> record]  position and locals of each thread
    open_called,    \* pal_socket_open was called
    close_called,   \* pal_socket_close was called
    opened,         \* number of `opened` events dispatched
    opened_status,  \* status of the last `opened` event
    closed,         \* number of `closed` events dispatched
    begins,         \* [Dirs -> Nat]  begin_* events answered with a usable buffer
    nonnull,        \* [Dirs -> Nat]  begin_* events answered with a non-null buffer
    ends,           \* [Dirs -> Nat]  end_* events dispatched
    tried,          \* address indices the open in progress started an attempt on
    connect_at_close, \* pal_socket_close was called while a connect was outstanding
    shut,           \* [Dirs -> BOOLEAN]  setsockopt(prx_so_shutdown) silenced the direction
    want,           \* [Dirs -> BOOLEAN]  can_send/can_recv(true) signalled a buffer on an
                    \* open socket and no begin_* event was dispatched since
    open_ctx,       \* open_op.context: "ctx" (the op context given to pal_socket_open) | "null"
    opened_ctx,     \* the op context the last `opened` event carried
    open_ret,       \* the value pal_socket_open returned ("none" before it returns)
    acc_opened,     \* `opened` events the accepted socket of the last completed
                    \* accept received through its own client interface
    local_peer      \* sock->local and sock->peer: "none" | "set" from the connected descriptor

\* io_queue.c: one io_queue_t and its buffers
VARIABLES
    Flink,          \* [Nodes -> Nodes]  DLIST_ENTRY.Flink of the list heads and the qlinks
    Blink,          \* [Nodes -> Nodes]  DLIST_ENTRY.Blink
    qb,             \* [BufIds -> record]  live, callback attached, abort callbacks run
    q_last,         \* the last queue operation and the buffer it returned or took
    qrun,           \* two threads inside io_queue calls: the queue lock, and the
                    \* position and locals of a releasing and of another thread
    iob,            \* one io_queue_buffer_t: length, offsets and payload bytes
    io_last         \* the last create/write/read on iob and what it reported

Threads == DOMAIN th
Callers == Threads \cap CallerIds
Pool    == Threads \cap PoolIds

vars == << props, sock_fd, prx_ai, prx_ai_count, prx_ai_cur, pending, begin,
           buffer, close_context, os_out, os_fds, bad_close, acc_objs, th,
           open_called, close_called, opened, opened_status, closed,
           begins, nonnull, ends, tried, connect_at_close, shut, want,
           open_ctx, opened_ctx, open_ret, acc_opened, local_peer,
           Flink, Blink, qb, q_last, qrun, iob, io_last >>

\* the socket engine, and the queue with its buffers: neither touches the other
sock_vars == << props, sock_fd, prx_ai, prx_ai_count, prx_ai_cur, pending, begin,
                buffer, close_context, os_out, os_fds, bad_close, acc_objs, th,
                open_called, close_called, opened, opened_status, closed,
                begins, nonnull, ends, tried, connect_at_close, shut, want,
                open_ctx, opened_ctx, open_ret, acc_opened, local_peer >>
queue_vars == << Flink, Blink, qb, q_last, qrun >>
buffer_vars == << iob, io_last >>

sockv == << sock_fd, os_fds, bad_close, acc_objs >>
aiv   == << prx_ai, prx_ai_count, prx_ai_cur >>
evv   == << opened, opened_status, closed, begins, nonnull, ends >>
callv == << open_called, close_called, connect_at_close, shut, want >>
ctxv  == << open_ctx, opened_ctx, open_ret, acc_opened, local_peer >>

\* ---------------------------------------------------------------- threads
IdleThread == [pc |-> "idle", op |-> "none", fn |-> "none", ret |-> << >>,
               res |-> "ok", flag |-> FALSE, ctx |-> "null"]

\* entry label of the begin function b
BeginEntry(b) == IF b = "close_begin" THEN "clb_check" ELSE "bg_cb"

\* a thread record after a return: pop the continuation, then run the
\* continuations that touch no shared state (the return statements of the
\* entry points, `return result == er_ok` of a begin function, the branch of
\* pal_socket_async_connect_complete on the result, which reads
\* async_op->context for the call it makes, the exit of the loop of
\* pal_socket_async_begin)
Pop(r) == [r EXCEPT !.pc = Head(r.ret), !.ret = Tail(r.ret)]

RECURSIVE Settle(_)
Settle(r) ==
    IF r.pc \in {"byname_ret", "byaddr_ret", "close_ret"} THEN IdleThread
    ELSE IF r.pc = "bg_ret" THEN Settle(Pop([r EXCEPT !.flag = (r.res = "ok")]))
    ELSE IF r.pc = "ab_loop" /\ ~r.flag THEN IdleThread
    ELSE IF r.pc = "acc_branch"
         THEN [r EXCEPT !.pc = IF r.res = "ok" THEN "oc_cb" ELSE "onb_loop",
                        !.ret = << "acc_clear" >> \o @,
                        !.ctx = open_ctx]
    ELSE r

\* a thread record that calls the begin function b from the loop at `back`;
\* pal_socket_async_no_op touches no state and returns false at once
EnterBegin(r, b, back) ==
    IF b = "no_op"
    THEN Settle([r EXCEPT !.pc = back, !.flag = FALSE])
    ELSE [r EXCEPT !.pc = BeginEntry(b), !.fn = b, !.ret = << back >> \o @]

\* Threads of one kind run the same code and have no identity: the records of
\* the two callers (of the two pool threads) are kept in a fixed order.
PcOrder == << "idle", "byname", "byaddr", "byaddr_after", "onb_loop", "onb_after",
              "oc_cb", "ob_fd", "ob_after", "cb_inc", "cb_os", "cb_dec",
              "conn_complete", "bind_inc", "bind_os", "bind_dec", "acc_clear",
              "cmp_cb", "cmp_dec", "fo_loop", "bg_cb", "bg_inc", "bg_os",
              "ab_check", "ab_loop", "cancel", "cc_ctx", "cc_check", "cc_fd",
              "cc_cb", "clb_check", "clb_dec", "clb_inc", "abort" >>
Key(r) == 3 * (CHOOSE i \in 1 .. Len(PcOrder) : PcOrder[i] = r.pc)
          + (IF r.op = "send" THEN 1 ELSE IF r.op = "recv" THEN 2 ELSE 0)
Sorted(f, a, b) ==
    IF {a, b} \subseteq DOMAIN f /\ Key(f[a]) > Key(f[b])
    THEN [f EXCEPT ![a] = f[b], ![b] = f[a]] ELSE f
Canon(f) == Sorted(Sorted(f, 1, 2), 3, 4)

\* thread t continues as record r
Step(t, r) == /\ th' = Canon([th EXCEPT ![t] = r])
              /\ UNCHANGED << queue_vars, buffer_vars >>

Goto(t, l)       == Step(t, [th[t] EXCEPT !.pc = l])
GotoRes(t, l, r) == Step(t, [th[t] EXCEPT !.pc = l, !.res = r])
\* call: jump to l and remember where to continue
Call(t, l, back) == Step(t, [th[t] EXCEPT !.pc = l, !.ret = << back >> \o @])
CallRes(t, l, back, r) ==
    Step(t, [th[t] EXCEPT !.pc = l, !.ret = << back >> \o @, !.res = r])
\* return to the caller's continuation
Return(t)        == Step(t, Settle(Pop(th[t])))
ReturnRes(t, r)  == Step(t, Settle(Pop([th[t] EXCEPT !.res = r])))
ReturnFlag(t, f) == Step(t, Settle(Pop([th[t] EXCEPT !.flag = f])))
\* the entry point returns to the caller
Finish(t) == Step(t, IdleThread)

\* thread t of the set S takes up a call or a completion: idle threads are
\* interchangeable, the one with the least id is taken
Starts(t, S) == /\ t \in S /\ th[t].pc = "idle"
                /\ \A u \in S : u < t => th[u].pc # "idle"

At(t, l) == th[t].pc = l

\* the process dies: no thread takes another step
Abort == /\ th' = [u \in Threads |-> [th[u] EXCEPT !.pc = "abort"]]
         /\ UNCHANGED << queue_vars, buffer_vars >>

Min(a, b) == IF a < b THEN a ELSE b

\* closesocket(sock->sock_fd); sock->sock_fd = INVALID_SOCKET, by a thread that
\* saw a descriptor value other than INVALID_SOCKET
CloseFd ==
    /\ sock_fd' = "INVALID"
    /\ os_fds' = IF sock_fd = "open" THEN os_fds - 1 ELSE os_fds
    /\ bad_close' = (bad_close \/ sock_fd # "open")
    /\ acc_objs' = acc_objs

\* ---------------------------------------------------------------- create
\* the socket types pal_socket_open_begin connects with ConnectEx when the
\* passive flag is not set, and the connectionless ones
StreamLike(p) == p.sock_type \in {"stream", "seqpacket", "rdm"}
DgramLike(p)  == p.sock_type \in {"dgram", "raw"}

\* a pal_socket_create that tests the passive flag before the socket type
CreateBegin_PassiveFirst(p, o) ==
    IF o = "open" THEN "no_op"
    ELSE IF p.passive
         THEN (IF o = "send" THEN "no_op" ELSE "accept_begin")
    ELSE IF DgramLike(p)
         THEN (IF o = "send" THEN "sendto_begin" ELSE "recvfrom_begin")
    ELSE (IF o = "send" THEN "send_begin" ELSE "recv_begin")

\* begin function pal_socket_create binds to op o
CreateBegin(p, o) ==
    IF o = "open" THEN "no_op"
    ELSE IF DgramLike(p)
         THEN (IF o = "send" THEN "sendto_begin" ELSE "recvfrom_begin")
    ELSE IF p.passive
         THEN (IF o = "send" THEN "no_op" ELSE "accept_begin")
    ELSE (IF o = "send" THEN "send_begin" ELSE "recv_begin")

\* socket type and passive flag of the three flavors of pal_socket_create
Flavors == { << "stream", FALSE >>, << "stream", TRUE >>, << "dgram", FALSE >> }

\* the socket pal_socket_create returns for properties out of P, threads T idle
InitSocket(T, P) ==
    /\ props \in P
    /\ sock_fd = "INVALID"
    /\ prx_ai = FALSE /\ prx_ai_count = 0 /\ prx_ai_cur = 0
    /\ pending = [o \in Ops |-> 0]
    /\ begin = [o \in Ops |-> CreateBegin(props, o)]
    /\ buffer = [o \in Ops |-> "null"]
    /\ close_context = FALSE
    /\ os_out = [o \in Ops |-> 0]
    /\ os_fds = 0
    /\ bad_close = FALSE
    /\ acc_objs = 0
    /\ th = [t \in T |-> IdleThread]
    /\ open_called = FALSE /\ close_called = FALSE
    /\ opened = 0 /\ opened_status = "none" /\ closed = 0
    /\ begins = [d \in Dirs |-> 0]
    /\ nonnull = [d \in Dirs |-> 0]
    /\ ends = [d \in Dirs |-> 0]
    /\ tried = << >>
    /\ connect_at_close = FALSE
    /\ shut = [d \in Dirs |-> FALSE]
    /\ want = [d \in Dirs |-> FALSE]
    /\ open_ctx = "null" /\ opened_ctx = "none" /\ open_ret = "none"
    /\ acc_opened = 0 /\ local_peer = "none"

InitWith(T) ==
    InitSocket(T, { [sock_type |-> k[1], passive |-> k[2]] : k \in Flavors })

\* ---------------------------------------------------------------- open
\* pal_socket_open: dispatch on the address family
pal_socket_open(t) ==
    /\ Starts(t, Callers) /\ ~open_called
    /\ open_called' = TRUE
    /\ \E proxy \in BOOLEAN :    \* itf.props.address.un.family is prx_address_family_proxy
         Step(t, [th[t] EXCEPT !.pc = IF proxy THEN "byname" ELSE "byaddr",
                               !.op = "open", !.ctx = "ctx"])
    /\ UNCHANGED << props, ctxv, sockv, aiv, pending, begin, buffer, close_context,
                    os_out, close_called, connect_at_close, shut, want, evv, tried >>

\* the value pal_socket_open has returned after the function that runs on
\* thread record r returns: pal_socket_open_by_addr_begin returns the result it
\* completed the open with, pal_socket_open_by_name_begin returns er_ok after
\* pal_socket_open_next_begin; a return to any other caller is none of
\* pal_socket_open
OpenReturns(r) ==
    IF Head(r.ret) = "byaddr_ret" THEN r.res
    ELSE IF Head(r.ret) = "byname_ret" THEN "ok"
    ELSE open_ret

\* pal_socket_open_by_name_begin that does not keep the list the resolver
\* returned
pal_socket_open_by_name_begin_NoList(t) ==
    /\ At(t, "byname")
    /\ \E n \in 0 .. MaxAddrs :
         IF n = 0
         THEN /\ Finish(t)
              /\ open_ret' = "connecting"
              /\ UNCHANGED aiv
         ELSE /\ prx_ai' = FALSE /\ prx_ai_count' = n /\ prx_ai_cur' = prx_ai_cur
              /\ Call(t, "onb_loop", "byname_ret")
              /\ UNCHANGED open_ret
    /\ UNCHANGED << props, open_ctx, opened_ctx, acc_opened, local_peer, sockv,
                    pending, begin, buffer, close_context,
                    os_out, callv, evv, tried >>

\* pal_socket_open_by_name_begin up to the call of pal_socket_open_next_begin:
\* the resolver fails or returns n addresses
pal_socket_open_by_name_begin(t) ==
    /\ At(t, "byname")
    /\ \E n \in 0 .. MaxAddrs :
         IF n = 0
         THEN /\ Finish(t)
              /\ open_ret' = "connecting"
              /\ UNCHANGED aiv
         ELSE /\ prx_ai' = TRUE /\ prx_ai_count' = n /\ prx_ai_cur' = prx_ai_cur
              /\ Call(t, "onb_loop", "byname_ret")
              /\ UNCHANGED open_ret
    /\ UNCHANGED << props, open_ctx, opened_ctx, acc_opened, local_peer, sockv,
                    pending, begin, buffer, close_context,
                    os_out, callv, evv, tried >>

\* pal_socket_open_by_addr_begin up to the call of pal_socket_open_begin
pal_socket_open_by_addr_begin(t) ==
    /\ At(t, "byaddr")
    /\ open_ctx' = th[t].ctx                \* sock->open_op.context = op_context
    /\ \/ CallRes(t, "oc_cb", "byaddr_ret", "err")     \* address translation fails
       \/ Call(t, "ob_fd", "byaddr_after")
    /\ UNCHANGED << props, opened_ctx, acc_opened, local_peer, open_ret, sockv,
                    aiv, pending, begin, buffer, close_context,
                    os_out, callv, evv, tried >>

\* pal_socket_open_by_addr_begin after pal_socket_open_begin
pal_socket_open_by_addr_after(t) ==
    /\ At(t, "byaddr_after")
    /\ IF th[t].res = "waiting"
       THEN Finish(t) /\ open_ret' = "ok"        \* return er_ok; // Wait for callback
       ELSE Call(t, "oc_cb", "byaddr_ret") /\ UNCHANGED open_ret
    /\ UNCHANGED << props, open_ctx, opened_ctx, acc_opened, local_peer, sockv,
                    aiv, pending, begin, buffer, close_context,
                    os_out, callv, evv, tried >>

\* pal_socket_open_next_begin, head of the loop: cursor test, address
\* translation, call of pal_socket_open_begin
pal_socket_open_next_begin(t) ==
    /\ At(t, "onb_loop")
    /\ IF prx_ai_cur >= prx_ai_count
       THEN /\ GotoRes(t, "oc_cb", "connecting")
            /\ UNCHANGED << tried, open_ctx >>
       ELSE /\ open_ctx' = th[t].ctx       \* sock->open_op.context = op_context
            /\ \/ /\ GotoRes(t, "oc_cb", "err")      \* address translation fails
                  /\ UNCHANGED tried
               \/ /\ Call(t, "ob_fd", "onb_after")
                  /\ tried' = IF Len(tried) < MaxTried
                              THEN Append(tried, prx_ai_cur) ELSE tried
    /\ UNCHANGED << props, opened_ctx, acc_opened, local_peer, open_ret, sockv,
                    aiv, pending, begin, buffer, close_context,
                    os_out, callv, evv >>

\* a cascade that goes on to the next address although pal_socket_open_begin
\* returned er_waiting
pal_socket_open_next_after_NoWait(t) ==
    /\ At(t, "onb_after")
    /\ IF th[t].res # "ok"
       THEN Goto(t, "onb_loop") /\ prx_ai_cur' = prx_ai_cur + 1
       ELSE Goto(t, "oc_cb") /\ UNCHANGED prx_ai_cur
    /\ UNCHANGED << props, ctxv, sockv, prx_ai, prx_ai_count, pending, begin, buffer,
                    close_context, os_out, callv, evv, tried >>

\* pal_socket_open_next_begin after pal_socket_open_begin returned
pal_socket_open_next_after(t) ==
    /\ At(t, "onb_after")
    /\ IF th[t].res = "waiting"
       THEN Return(t) /\ UNCHANGED prx_ai_cur
       ELSE IF th[t].res # "ok"
       THEN Goto(t, "onb_loop") /\ prx_ai_cur' = prx_ai_cur + 1
       ELSE Goto(t, "oc_cb") /\ UNCHANGED prx_ai_cur
    /\ open_ret' = IF th[t].res = "waiting" THEN OpenReturns(th[t]) ELSE open_ret
    /\ UNCHANGED << props, open_ctx, opened_ctx, acc_opened, local_peer, sockv,
                    prx_ai, prx_ai_count, pending, begin, buffer,
                    close_context, os_out, callv, evv, tried >>

\* pal_socket_open_complete: dispatch `opened`, free the address list
pal_socket_open_complete(t) ==
    /\ At(t, "oc_cb")
    /\ opened' = Min(opened + 1, 2)
    /\ opened_status' = th[t].res
    /\ opened_ctx' = th[t].ctx
    /\ prx_ai' = FALSE
    /\ prx_ai_count' = IF prx_ai THEN 0 ELSE prx_ai_count
    /\ prx_ai_cur' = IF prx_ai THEN 0 ELSE prx_ai_cur
    /\ tried' = << >>
    /\ Return(t)
    /\ open_ret' = OpenReturns(th[t])
    /\ UNCHANGED << props, open_ctx, acc_opened, local_peer, sockv, pending,
                    begin, buffer, close_context,
                    os_out, callv, closed, begins, nonnull, ends >>

\* pal_socket_open_begin, first part: pal_socket_properties_to_fd
pal_socket_properties_to_fd(t) ==
    /\ At(t, "ob_fd")
    /\ \/ /\ ReturnRes(t, "err")                 \* a property does not translate
          /\ UNCHANGED sockv
       \/ /\ ReturnRes(t, "err")                 \* WSASocket fails
          /\ sock_fd' = "INVALID"
          /\ UNCHANGED << os_fds, bad_close, acc_objs >>
       \/ /\ ReturnRes(t, "err")                 \* BindIoCompletionCallback fails
          /\ sock_fd' = "stale"
          /\ UNCHANGED << os_fds, bad_close, acc_objs >>
       \/ /\ sock_fd' = "open"
          /\ os_fds' = os_fds + 1
          /\ UNCHANGED << bad_close, acc_objs >>
          /\ Goto(t, IF StreamLike(props) /\ ~props.passive
                     THEN "cb_inc" ELSE "bind_inc")
    /\ UNCHANGED << props, ctxv, aiv, pending, begin, buffer, close_context,
                    os_out, callv, evv, tried >>

\* pal_socket_open_begin, last part: close the descriptor after a synchronous failure
pal_socket_open_begin(t) ==
    /\ At(t, "ob_after")
    /\ IF th[t].res \notin {"ok", "waiting"} /\ sock_fd # "INVALID"
       THEN CloseFd
       ELSE UNCHANGED sockv
    /\ Return(t)
    /\ UNCHANGED << props, ctxv, aiv, pending, begin, buffer, close_context,
                    os_out, callv, evv, tried >>

\* pal_socket_async_connect_begin: atomic_inc(pending)
pal_socket_async_connect_begin(t) ==
    /\ At(t, "cb_inc")
    /\ pending' = [pending EXCEPT !["open"] = @ + 1]
    /\ Goto(t, "cb_os")
    /\ UNCHANGED << props, ctxv, sockv, aiv, begin, buffer, close_context,
                    os_out, callv, evv, tried >>

\* pal_socket_async_connect_begin: bind to the unspecified address and ConnectEx
pal_socket_async_connect_submit(t) ==
    /\ At(t, "cb_os")
    /\ \/ /\ CallRes(t, "conn_complete", "cb_dec", "err")  \* bind or ConnectEx fails
          /\ UNCHANGED os_out
       \/ /\ sock_fd = "open"               \* ERROR_IO_PENDING or TRUE: er_waiting
          /\ os_out' = [os_out EXCEPT !["open"] = @ + 1]
          /\ GotoRes(t, "ob_after", "waiting")
    /\ UNCHANGED << props, ctxv, sockv, aiv, pending, begin, buffer, close_context,
                    callv, evv, tried >>

\* pal_socket_async_connect_begin: atomic_dec(pending) after the synchronous failure
pal_socket_async_connect_failed(t) ==
    /\ At(t, "cb_dec")
    /\ pending' = [pending EXCEPT !["open"] = @ - 1]
    /\ Goto(t, "ob_after")
    /\ UNCHANGED << props, ctxv, sockv, aiv, begin, buffer, close_context,
                    os_out, callv, evv, tried >>

\* a connect completion that reports ok without reading the names
pal_socket_connect_complete_NoNames(t) ==
    /\ At(t, "conn_complete")
    /\ \E r \in (IF th[t].res = "ok" /\ sock_fd = "open" THEN {"ok", "err"}
                 ELSE IF th[t].res = "ok" THEN {"err"} ELSE {th[t].res}) :
         /\ ReturnRes(t, r)
         /\ IF r # "ok" /\ sock_fd # "INVALID" THEN CloseFd ELSE UNCHANGED sockv
    /\ UNCHANGED << props, ctxv, aiv, pending, begin, buffer, close_context,
                    os_out, callv, evv, tried >>

\* pal_socket_connect_complete: update the connect context, read the local and
\* the peer name; close the descriptor when the result is not ok
pal_socket_connect_complete(t) ==
    /\ At(t, "conn_complete")
    /\ \E r \in (IF th[t].res = "ok" /\ sock_fd = "open" THEN {"ok", "err"}
                 ELSE IF th[t].res = "ok" THEN {"err"} ELSE {th[t].res}) :
         /\ ReturnRes(t, r)
         /\ IF r # "ok" /\ sock_fd # "INVALID" THEN CloseFd ELSE UNCHANGED sockv
         /\ local_peer' = IF r = "ok" THEN "set" ELSE local_peer
    /\ UNCHANGED << props, open_ctx, opened_ctx, open_ret, acc_opened, aiv,
                    pending, begin, buffer, close_context,
                    os_out, callv, evv, tried >>

\* pal_socket_bind: atomic_inc(pending)
pal_socket_bind(t) ==
    /\ At(t, "bind_inc")
    /\ pending' = [pending EXCEPT !["open"] = @ + 1]
    /\ Goto(t, "bind_os")
    /\ UNCHANGED << props, ctxv, sockv, aiv, begin, buffer, close_context,
                    os_out, callv, evv, tried >>

\* pal_socket_bind: bind and, on a stream socket, listen
pal_socket_bind_listen(t) ==
    /\ At(t, "bind_os")
    /\ \/ GotoRes(t, "bind_dec", "err")
       \/ sock_fd = "open" /\ GotoRes(t, "bind_dec", "ok")
    /\ UNCHANGED << props, ctxv, sockv, aiv, pending, begin, buffer, close_context,
                    os_out, callv, evv, tried >>

\* pal_socket_bind: atomic_dec(pending)
pal_socket_bind_return(t) ==
    /\ At(t, "bind_dec")
    /\ pending' = [pending EXCEPT !["open"] = @ - 1]
    /\ Goto(t, "ob_after")
    /\ UNCHANGED << props, ctxv, sockv, aiv, begin, buffer, close_context,
                    os_out, callv, evv, tried >>

\* ---------------------------------------------------------------- completion
\* pal_socket_async_complete_from_OVERLAPPED: the OS delivers the completion of
\* an operation of op o with status r on pool thread t; atomic_inc(pending),
\* then async_op->complete(async_op, r, bytes)
pal_socket_async_complete_from_OVERLAPPED(t, o) ==
    /\ Starts(t, Pool)
    /\ os_out[o] > 0
    /\ os_out' = [os_out EXCEPT ![o] = @ - 1]
    /\ pending' = [pending EXCEPT ![o] = @ + 1]
    /\ \E r \in {"ok", "err"} :
         Step(t, [th[t] EXCEPT !.op = o, !.res = r, !.flag = TRUE,
                    !.pc = IF o = "open" THEN "conn_complete" ELSE "cmp_cb",
                    !.ret = IF o = "open" THEN << "acc_branch" >> ELSE << "fo_loop" >>])
    /\ UNCHANGED << props, ctxv, sockv, aiv, begin, buffer, close_context,
                    callv, evv, tried >>

\* pal_socket_async_connect_complete, after pal_socket_open_complete or
\* pal_socket_open_next_begin returned: clear the op state, atomic_dec(pending)
pal_socket_async_connect_complete(t) ==
    /\ At(t, "acc_clear")
    /\ buffer' = [buffer EXCEPT !["open"] = "null"]
    /\ open_ctx' = "null"
    /\ pending' = [pending EXCEPT !["open"] = @ - 1]
    /\ Goto(t, "fo_loop")
    /\ UNCHANGED << props, opened_ctx, acc_opened, local_peer, open_ret, sockv,
                    aiv, begin, close_context,
                    os_out, callv, evv, tried >>

\* the op of thread record r is the accept of a listener
AcceptOp(r) == CreateBegin(props, r.op) = "accept_begin"

\* `opened` events pal_socket_async_accept_complete dispatches to the accepted
\* socket after end_accept: pal_socket_open_complete(accepted, er_ok, NULL) when
\* its result is er_ok, none when it is an error; on a buffer that is no socket
\* object either happens
AcceptedOpened(r) ==
    IF r.res \in {"ok", "okfail"} THEN {1}
    ELSE IF r.res = "confused" THEN {0, 1}
    ELSE {0}

\* pal_socket_async_{send,sendto,recv,recvfrom,accept}_complete: dispatch the
\* end_* event and clear the op state; accept_complete frees the accepted
\* socket on an error, and hands it to the client and completes its open
\* otherwise
pal_socket_async_complete(t) ==
    /\ At(t, "cmp_cb")
    /\ ends' = [ends EXCEPT ![th[t].op] = @ + 1]
    /\ acc_objs' = IF buffer[th[t].op] = "sock" THEN acc_objs - 1 ELSE acc_objs
    /\ IF AcceptOp(th[t])
       THEN acc_opened' \in AcceptedOpened(th[t])
       ELSE UNCHANGED acc_opened
    /\ buffer' = [buffer EXCEPT ![th[t].op] = "null"]
    /\ Goto(t, "cmp_dec")
    /\ UNCHANGED << props, open_ctx, opened_ctx, open_ret, local_peer, sock_fd,
                    os_fds, bad_close, aiv, pending, begin,
                    close_context, os_out, callv, opened, opened_status, closed,
                    begins, nonnull, tried >>

\* pal_socket_async_*_complete: atomic_dec(pending)
pal_socket_async_complete_dec(t) ==
    /\ At(t, "cmp_dec")
    /\ pending' = [pending EXCEPT ![th[t].op] = @ - 1]
    /\ Return(t)
    /\ UNCHANGED << props, ctxv, sockv, aiv, begin, buffer, close_context,
                    os_out, callv, evv, tried >>

\* pal_socket_async_accept_complete entered from a begin that failed before
\* AcceptEx: `accepted` is the client's buffer taken for a socket object, and
\* the function writes its addresses, closes its descriptor and frees it.  The
\* behaviour is undefined: the process dies before or after the end_accept
\* event, or goes on (pal_socket_async_complete, ..._dec).
pal_socket_async_accept_complete_fault(t) ==
    /\ th[t].pc \in {"cmp_cb", "cmp_dec"} /\ th[t].res = "confused"
    /\ Abort
    /\ UNCHANGED << props, ctxv, sockv, aiv, pending, begin, buffer, close_context,
                    os_out, callv, evv, tried >>

\* pal_socket_async_complete_from_OVERLAPPED: while (async_op->begin(async_op))
pal_socket_async_complete_loop(t) ==
    /\ At(t, "fo_loop") /\ th[t].flag
    /\ Step(t, EnterBegin(th[t], begin[th[t].op], "fo_loop"))
    /\ UNCHANGED << props, ctxv, sockv, aiv, pending, begin, buffer, close_context,
                    os_out, callv, evv, tried >>

\* pal_socket_async_complete_from_OVERLAPPED: atomic_dec(pending) on exit
pal_socket_async_complete_exit(t) ==
    /\ At(t, "fo_loop") /\ ~th[t].flag
    /\ pending' = [pending EXCEPT ![th[t].op] = @ - 1]
    /\ Finish(t)
    /\ UNCHANGED << props, ctxv, sockv, aiv, begin, buffer, close_context,
                    os_out, callv, evv, tried >>

\* ---------------------------------------------------------------- begin
\* the op of a direction, and whether a begin function is the accept flavor
IsAccept(fn) == fn = "accept_begin"
IsSendTo(fn) == fn = "sendto_begin"

\* pal_socket_async_{send,sendto,recv,recvfrom,accept}_begin: dispatch the begin_*
\* event; the client answers with no buffer, with a buffer, or (accept) with a
\* buffer that has not the size of a client interface
pal_socket_async_begin_event(t) ==
    /\ At(t, "bg_cb")
    /\ LET o == th[t].op IN
       \/ /\ buffer' = [buffer EXCEPT ![o] = "null"]
          /\ ReturnFlag(t, FALSE)
          /\ UNCHANGED << begins, nonnull >>
       \/ /\ nonnull[o] < MaxBufs
          /\ buffer' = [buffer EXCEPT ![o] = "buf"]
          /\ nonnull' = [nonnull EXCEPT ![o] = @ + 1]
          /\ begins' = [begins EXCEPT ![o] = @ + 1]
          /\ Goto(t, "bg_inc")
       \/ /\ nonnull[o] < MaxBufs
          /\ IsAccept(th[t].fn)
          /\ buffer' = [buffer EXCEPT ![o] = "buf"]
          /\ nonnull' = [nonnull EXCEPT ![o] = @ + 1]
          /\ ReturnFlag(t, FALSE)
          /\ UNCHANGED begins
    /\ want' = [want EXCEPT ![th[t].op] = FALSE]
    /\ UNCHANGED << props, ctxv, sockv, aiv, pending, begin, close_context, os_out,
                    open_called, close_called, connect_at_close, shut,
                    opened, opened_status, closed, ends, tried >>

\* pal_socket_async_*_begin: atomic_inc(pending)
pal_socket_async_begin_inc(t) ==
    /\ At(t, "bg_inc")
    /\ pending' = [pending EXCEPT ![th[t].op] = @ + 1]
    /\ Goto(t, "bg_os")
    /\ UNCHANGED << props, ctxv, sockv, aiv, begin, buffer, close_context,
                    os_out, callv, evv, tried >>

\* status the completion dispatches when the OS call of begin function fn
\* failed with an error other than WSA_IO_PENDING.  sendto_begin leaves
\* `result` er_ok.  accept_begin passes `received`, which is 0, as the result:
\* pal_socket_async_accept_complete then reads the addresses of an accept that
\* did not happen and reports its own finding ("okfail": er_ok to the client,
\* while the begin function returns false on its own result).
SubmitFailed(fn) == IF IsSendTo(fn) THEN {"ok"}
                    ELSE IF IsAccept(fn) THEN {"okfail", "err"}
                    ELSE {"err"}

\* accept_begin created the accepted socket object with its descriptor:
\* async_op->buffer = accepted
Accepting(o) ==
    /\ acc_objs' = acc_objs + 1
    /\ buffer' = [buffer EXCEPT ![o] = "sock"]

\* a submit that returns false on a synchronous failure of the OS call
\* without completing the operation locally
pal_socket_async_begin_submit_NoComplete(t) ==
    /\ At(t, "bg_os")
    /\ \/ /\ sock_fd = "open"
          /\ os_out' = [os_out EXCEPT ![th[t].op] = @ + 1]
          /\ ReturnFlag(t, FALSE)
          /\ IF IsAccept(th[t].fn) THEN Accepting(th[t].op)
             ELSE UNCHANGED << acc_objs, buffer >>
       \/ /\ th[t].fn \in {"send_begin", "sendto_begin"}
          /\ CallRes(t, "cmp_cb", "bg_ret", "err")
          /\ UNCHANGED << os_out, acc_objs, buffer >>
       \/ /\ IsAccept(th[t].fn)
          /\ CallRes(t, "cmp_cb", "bg_ret", "confused")
          /\ UNCHANGED << os_out, acc_objs, buffer >>
       \/ /\ ReturnFlag(t, FALSE)
          /\ UNCHANGED << os_out, acc_objs, buffer >>
    /\ UNCHANGED << props, ctxv, sock_fd, os_fds, bad_close, aiv, pending, begin,
                    close_context, callv, evv, tried >>

\* pal_socket_async_*_begin: translate the arguments and submit the overlapped
\* operation (WSASend, WSARecv, WSASendTo, WSARecvFrom, AcceptEx)
pal_socket_async_begin_submit(t) ==
    /\ At(t, "bg_os")
    /\ \/ /\ sock_fd = "open"              \* WSA_IO_PENDING or synchronous success
          /\ os_out' = [os_out EXCEPT ![th[t].op] = @ + 1]
          /\ ReturnFlag(t, FALSE)
          /\ IF IsAccept(th[t].fn) THEN Accepting(th[t].op)
             ELSE UNCHANGED << acc_objs, buffer >>
       \/ /\ th[t].fn \in {"send_begin", "sendto_begin"}
          /\ CallRes(t, "cmp_cb", "bg_ret", "err")  \* an argument does not translate
          /\ UNCHANGED << os_out, acc_objs, buffer >>
       \/ /\ IsAccept(th[t].fn)          \* pal_socket_create fails: complete, which
          /\ CallRes(t, "cmp_cb", "bg_ret", "confused")  \* runs on the client's buffer
          /\ UNCHANGED << os_out, acc_objs, buffer >>
       \/ /\ IsAccept(th[t].fn)          \* pal_socket_properties_to_fd fails: the same,
          /\ CallRes(t, "cmp_cb", "bg_ret", "confused")  \* the new socket object is lost
          /\ acc_objs' = acc_objs + 1
          /\ UNCHANGED << os_out, buffer >>
       \/ /\ \E r \in SubmitFailed(th[t].fn) :      \* the OS call fails
                CallRes(t, "cmp_cb", "bg_ret", r)
          /\ IF IsAccept(th[t].fn) THEN Accepting(th[t].op)
             ELSE UNCHANGED << acc_objs, buffer >>
          /\ UNCHANGED os_out
    /\ UNCHANGED << props, ctxv, sock_fd, os_fds, bad_close, aiv, pending, begin,
                    close_context, callv, evv, tried >>

\* the client signals a buffer for direction d on an open socket that is
\* neither closing nor shut down in that direction
Signals(d) ==
    /\ sock_fd = "open" /\ opened_status = "ok"
    /\ ~close_called /\ ~shut[d]
    /\ begin[d] \notin {"no_op", "close_begin"}

\* the value pal_socket_can_send / pal_socket_can_recv returns
pal_socket_can_result == IF sock_fd = "INVALID" THEN "closed" ELSE "ok"

\* pal_socket_can_send / pal_socket_can_recv on direction d
pal_socket_can(t, d, ready) ==
    /\ Starts(t, Callers)
    /\ IF sock_fd = "INVALID" THEN Finish(t)
       ELSE IF ~ready THEN Finish(t)
       ELSE Step(t, [th[t] EXCEPT !.pc = "ab_check", !.op = d])
    /\ want' = IF ready /\ Signals(d) THEN [want EXCEPT ![d] = TRUE] ELSE want
    /\ UNCHANGED << props, ctxv, sockv, aiv, pending, begin, buffer, close_context,
                    os_out, open_called, close_called, connect_at_close, shut,
                    evv, tried >>

pal_socket_can_send(t, ready) == pal_socket_can(t, "send", ready)
pal_socket_can_recv(t, ready) == pal_socket_can(t, "recv", ready)

\* pal_socket_async_begin: if (!async_op->pending)
pal_socket_async_begin(t) ==
    /\ At(t, "ab_check")
    /\ IF pending[th[t].op] # 0
       THEN Finish(t)
       ELSE Step(t, [th[t] EXCEPT !.pc = "ab_loop", !.flag = TRUE])
    /\ UNCHANGED << props, ctxv, sockv, aiv, pending, begin, buffer, close_context,
                    os_out, callv, evv, tried >>

\* pal_socket_async_begin: while (async_op->begin(async_op))
pal_socket_async_begin_loop(t) ==
    /\ At(t, "ab_loop")
    /\ Step(t, EnterBegin(th[t], begin[th[t].op], "ab_loop"))
    /\ UNCHANGED << props, ctxv, sockv, aiv, pending, begin, buffer, close_context,
                    os_out, callv, evv, tried >>

\* ---------------------------------------------------------------- close
\* pal_socket_close: set the close context.  The client closes a socket whose
\* pal_socket_open call has returned (the connect may still be in flight).
pal_socket_close(t) ==
    /\ Starts(t, Callers) /\ ~close_called
    /\ open_called /\ \A u \in Callers : th[u].op # "open"
    /\ close_called' = TRUE
    /\ close_context' = TRUE
    /\ connect_at_close' = (os_out["open"] > 0)
    /\ want' = [d \in Dirs |-> FALSE]
    /\ Step(t, [th[t] EXCEPT !.pc = "cancel"])
    /\ UNCHANGED << props, ctxv, sockv, aiv, pending, begin, buffer,
                    os_out, open_called, shut, evv, tried >>

\* the values of a prx_so_shutdown call: the three prx_shutdown_op_t values and
\* one that pal_os_from_prx_shutdown_op does not translate
ShutdownOps == {"read", "write", "both", "bad"}

\* what the call can return for the value how: er_ok, or the error of the
\* translation or of the shutdown system call
SetsockoptReturns(how) == IF how = "bad" THEN {"err"} ELSE {"ok", "err"}

\* a shutdown that silences the wrong direction
pal_socket_setsockopt_Swapped(how, r) ==
    /\ r \in SetsockoptReturns(how)
    /\ opened_status = "ok" /\ closed = 0
    /\ \E t \in Callers : th[t].pc = "idle"
    /\ begin' = [o \in Ops |->
                   IF o = "send" /\ how # "write" THEN "no_op"
                   ELSE IF o = "recv" /\ how # "read" THEN "no_op"
                   ELSE begin[o]]
    /\ shut' = [d \in Dirs |->
                   shut[d] \/ (d = "send" /\ how # "read") \/ (d = "recv" /\ how # "write")]
    /\ want' = [d \in Dirs |-> want[d] /\ ~shut'[d]]
    /\ UNCHANGED << props, ctxv, sockv, aiv, pending, buffer, close_context, os_out, th,
                    open_called, close_called, connect_at_close, evv, tried,
                    queue_vars, buffer_vars >>

\* pal_socket_setsockopt(sock, prx_so_shutdown, how) returning r: swap the
\* begin of the silenced directions to pal_socket_async_no_op, then translate
\* the value and call shutdown().  The call runs on the client's thread between
\* two steps of the other threads.
pal_socket_setsockopt(how, r) ==
    /\ r \in SetsockoptReturns(how)
    /\ opened_status = "ok" /\ closed = 0
    /\ \E t \in Callers : th[t].pc = "idle"
    /\ begin' = [o \in Ops |->
                   IF o = "send" /\ how # "read" THEN "no_op"
                   ELSE IF o = "recv" /\ how # "write" THEN "no_op"
                   ELSE begin[o]]
    /\ shut' = [d \in Dirs |->
                   shut[d] \/ (d = "send" /\ how # "read") \/ (d = "recv" /\ how # "write")]
    /\ want' = [d \in Dirs |-> want[d] /\ ~shut'[d]]
    /\ UNCHANGED << props, ctxv, sockv, aiv, pending, buffer, close_context, os_out, th,
                    open_called, close_called, connect_at_close, evv, tried,
                    queue_vars, buffer_vars >>

\* pal_socket_close: pal_socket_async_cancel of open_op, send_op and recv_op
\* (install the close-shim, CancelIoEx), then pal_socket_close_complete.  No
\* thread reads the begin of more than one op, so the three stores are one step.
pal_socket_async_cancel(t) ==
    /\ At(t, "cancel")
    /\ begin' = [o \in Ops |-> "close_begin"]
    /\ Call(t, "cc_ctx", "close_ret")
    /\ UNCHANGED << props, ctxv, sockv, aiv, pending, buffer, close_context,
                    os_out, callv, evv, tried >>

\* pal_socket_async_close_begin: if (!async_op->pending) return false
pal_socket_async_close_begin(t) ==
    /\ At(t, "clb_check")
    /\ IF pending[th[t].op] = 0
       THEN ReturnFlag(t, FALSE)
       ELSE Goto(t, "clb_dec")
    /\ UNCHANGED << props, ctxv, sockv, aiv, pending, begin, buffer, close_context,
                    os_out, callv, evv, tried >>

\* pal_socket_async_close_begin: atomic_dec(pending), call pal_socket_close_complete
pal_socket_async_close_dec(t) ==
    /\ At(t, "clb_dec")
    /\ pending' = [pending EXCEPT ![th[t].op] = @ - 1]
    /\ Call(t, "cc_ctx", "clb_inc")
    /\ UNCHANGED << props, ctxv, sockv, aiv, begin, buffer, close_context,
                    os_out, callv, evv, tried >>

\* the close-shim without its atomic_inc after pal_socket_close_complete
pal_socket_async_close_inc_NoInc(t) ==
    /\ At(t, "clb_inc")
    /\ ReturnFlag(t, FALSE)
    /\ UNCHANGED << props, ctxv, sockv, aiv, pending, begin, buffer, close_context,
                    os_out, callv, evv, tried >>

\* pal_socket_async_close_begin: atomic_inc(pending), return false
pal_socket_async_close_inc(t) ==
    /\ At(t, "clb_inc")
    /\ pending' = [pending EXCEPT ![th[t].op] = @ + 1]
    /\ ReturnFlag(t, FALSE)
    /\ UNCHANGED << props, ctxv, sockv, aiv, begin, buffer, close_context,
                    os_out, callv, evv, tried >>

\* pal_socket_close_complete: context = sock->close_context
pal_socket_close_complete(t) ==
    /\ At(t, "cc_ctx")
    /\ IF close_context THEN Goto(t, "cc_check") ELSE Return(t)
    /\ UNCHANGED << props, ctxv, sockv, aiv, pending, begin, buffer, close_context,
                    os_out, callv, evv, tried >>

\* pal_socket_close_complete: the tests of open_op.pending, recv_op.pending and
\* send_op.pending; on success sock->close_context = NULL
pal_socket_close_check(t) ==
    /\ At(t, "cc_check")
    /\ IF \E o \in Ops : pending[o] # 0
       THEN Return(t) /\ UNCHANGED close_context
       ELSE Goto(t, "cc_fd") /\ close_context' = FALSE
    /\ UNCHANGED << props, ctxv, sockv, aiv, pending, begin, buffer,
                    os_out, callv, evv, tried >>

\* pal_socket_close_complete: if (sock->sock_fd != INVALID_SOCKET)
pal_socket_close_fd(t) ==
    /\ At(t, "cc_fd")
    /\ GotoRes(t, "cc_cb", sock_fd)
    /\ UNCHANGED << props, ctxv, sockv, aiv, pending, begin, buffer, close_context,
                    os_out, callv, evv, tried >>

\* pal_socket_close_complete: closesocket, dispatch `closed`
pal_socket_close_dispatch(t) ==
    /\ At(t, "cc_cb")
    /\ IF th[t].res # "INVALID" THEN CloseFd ELSE UNCHANGED sockv
    /\ closed' = closed + 1
    /\ ReturnRes(t, "ok")
    /\ UNCHANGED << props, ctxv, aiv, pending, begin, buffer, close_context, os_out,
                    callv, opened, opened_status, begins, nonnull, ends, tried >>

\* ================================================================ io_queue
\* the buffers the queue's factory hands out, the three list heads of
\* io_queue_t, and the DLIST_ENTRY nodes
BufOrder == << "b1", "b2", "b3" >>
BufIds == { BufOrder[i] : i \in DOMAIN BufOrder }
Lists == { "ready", "inprogress", "done" }
Nodes == Lists \cup BufIds

\* the links as a value, and the store of a value into the links
Links == [Flink |-> Flink, Blink |-> Blink]
SetLinks(L) == Flink' = L.Flink /\ Blink' = L.Blink

\* doubly linked list primitives (DLIST_ENTRY)
DList_InitializeListHead(L, h) ==
    [Flink |-> [L.Flink EXCEPT ![h] = h], Blink |-> [L.Blink EXCEPT ![h] = h]]

DList_IsListEmpty(L, h) == L.Flink[h] = h

\* Blink->Flink = Flink; Flink->Blink = Blink
DList_RemoveEntryList(L, e) ==
    LET fl == L.Flink[e]
        bl == L.Blink[e]
    IN [Flink |-> [L.Flink EXCEPT ![bl] = fl], Blink |-> [L.Blink EXCEPT ![fl] = bl]]

\* Entry = ListHead->Flink; ListHead->Flink = Entry->Flink; Entry->Flink->Blink = ListHead
DList_RemoveHeadList(L, h) ==
    LET fl == L.Flink[L.Flink[h]]
    IN [Flink |-> [L.Flink EXCEPT ![h] = fl], Blink |-> [L.Blink EXCEPT ![fl] = h]]

\* Entry->Flink = ListHead; Entry->Blink = Blink; Blink->Flink = Entry; ListHead->Blink = Entry
DList_InsertTailList(L, h, e) ==
    LET bl == L.Blink[h]
        f1 == [L.Flink EXCEPT ![e] = h]
        b1 == [L.Blink EXCEPT ![e] = bl]
    IN [Flink |-> [f1 EXCEPT ![bl] = e], Blink |-> [b1 EXCEPT ![h] = e]]

\* ListEnd = ListHead->Blink; ListHead->Blink->Flink = ListToAppend;
\* ListHead->Blink = ListToAppend->Blink; ListToAppend->Blink->Flink = ListHead;
\* ListToAppend->Blink = ListEnd
DList_AppendTailList(L, h, a) ==
    LET le == L.Blink[h]
        f1 == [L.Flink EXCEPT ![le] = a]
        b1 == [L.Blink EXCEPT ![h] = L.Blink[a]]
        f2 == [f1 EXCEPT ![b1[a]] = h]
        b2 == [b1 EXCEPT ![a] = le]
    IN [Flink |-> f2, Blink |-> b2]

\* the entries a walk along Flink meets from x until it is back at the head h
RECURSIVE Walk(_, _, _, _)
Walk(L, h, x, n) ==
    IF x = h \/ n = 0 THEN << >>
    ELSE << x >> \o Walk(L, h, L.Flink[x], n - 1)

\* the buffers of list h, head first
ListIn(L, h) == Walk(L, h, L.Flink[h], Cardinality(Nodes))
ListOf(h) == ListIn(Links, h)
Elems(q) == { q[i] : i \in DOMAIN q }
Queued(L) == UNION { Elems(ListIn(L, h)) : h \in Lists }

\* a buffer the factory has not handed out
FreeBuffer == [live |-> FALSE, cb |-> FALSE, aborted |-> 0]

\* no thread is inside an io_queue call
QueueIdle == [lock |-> FALSE,
              rel |-> [pc |-> "idle", buf |-> "null", cb |-> FALSE],
              oth |-> [pc |-> "idle", buf |-> "null", cb |-> FALSE,
                       h |-> "null", todo |-> << >>]]

\* io_queue_create: three empty lists, no buffer
QueueInit ==
    /\ Flink = [n \in Nodes |-> n]
    /\ Blink = [n \in Nodes |-> n]
    /\ qb = [b \in BufIds |-> FreeBuffer]
    /\ q_last = [op |-> "create", buf |-> "null"]
    /\ qrun = QueueIdle

\* an abort callback that leaves cb_ptr set after the call
io_queue_buffer_abort_callback_NoNull(r) ==
    IF r.cb THEN [r EXCEPT !.aborted = r.aborted + 1] ELSE r

\* io_queue_buffer_abort_callback on the buffer record r: take the callback
\* off the buffer and call it with er_aborted, if one is attached
io_queue_buffer_abort_callback(r) ==
    IF r.cb THEN [r EXCEPT !.cb = FALSE, !.aborted = r.aborted + 1] ELSE r

\* a push that appends without unlinking the buffer first
io_queue_state_push_NoRemove(L, h, b) ==
    DList_InsertTailList(L, h, b)

\* io_queue_state_push: unlink the buffer, append it to the list
io_queue_state_push(L, h, b) ==
    DList_InsertTailList(DList_RemoveEntryList(L, b), h, b)

\* a pop that hands out the tail of the list
io_queue_state_head_Tail(L, h) ==
    IF DList_IsListEmpty(L, h) THEN "null" ELSE L.Blink[h]

\* io_queue_state_pop: the head of the list, or null
io_queue_state_head(L, h) ==
    IF DList_IsListEmpty(L, h) THEN "null" ELSE L.Flink[h]

\* io_queue_state_pop: the links after taking the head off and detaching it
io_queue_state_pop(L, h) ==
    IF DList_IsListEmpty(L, h) THEN L
    ELSE DList_InitializeListHead(DList_RemoveHeadList(L, h), L.Flink[h])

\* io_queue_release_buffer_no_lock: unlink, run the callback, give the memory back
io_queue_release_buffer_no_lock(S, b) ==
    [L |-> DList_InitializeListHead(DList_RemoveEntryList(S.L, b), b),
     Q |-> [S.Q EXCEPT ![b] = [io_queue_buffer_abort_callback(@) EXCEPT !.live = FALSE]]]

\* io_queue_state_release_no_lock: release from the head until the list is empty
RECURSIVE io_queue_state_release_no_lock(_, _, _)
io_queue_state_release_no_lock(S, h, n) ==
    IF DList_IsListEmpty(S.L, h) \/ n = 0
    THEN [S EXCEPT !.L = DList_InitializeListHead(S.L, h)]
    ELSE io_queue_state_release_no_lock(
             io_queue_release_buffer_no_lock(
                 [S EXCEPT !.L = DList_RemoveHeadList(S.L, h)], S.L.Flink[h]),
             h, n - 1)

\* io_queue_state_abort_no_lock on list h of the links L
io_queue_state_abort_no_lock(L, Q, h) ==
    [b \in BufIds |-> IF b \in Elems(ListIn(L, h))
                      THEN io_queue_buffer_abort_callback(Q[b]) ELSE Q[b]]

\* the operation o was the last one, on or returning buffer b
Last(o, b) == q_last' = [op |-> o, buf |-> b]

\* io_queue_create_buffer: a buffer from the factory, detached, no callback
\* (the factory hands out the first free buffer)
io_queue_create_buffer(b) ==
    /\ ~qb[b].live
    /\ \A i, j \in DOMAIN BufOrder : (BufOrder[j] = b /\ i < j) => qb[BufOrder[i]].live
    /\ qb' = [qb EXCEPT ![b] = [live |-> TRUE, cb |-> FALSE, aborted |-> 0]]
    /\ SetLinks(DList_InitializeListHead(Links, b))
    /\ Last("create_buffer", b)
    /\ UNCHANGED << sock_vars, buffer_vars, qrun >>

\* the owner of a buffer attaches a callback to it (cb_ptr, ctx)
io_queue_buffer_set_callback(b) ==
    /\ qb[b].live /\ ~qb[b].cb /\ qb[b].aborted = 0
    /\ qb' = [qb EXCEPT ![b].cb = TRUE]
    /\ Last("set_callback", b)
    /\ UNCHANGED << sock_vars, buffer_vars, qrun, Flink, Blink >>

\* io_queue_buffer_set_ready / _set_inprogress / _set_done
io_queue_buffer_set(b, h) ==
    /\ qb[b].live
    /\ SetLinks(io_queue_state_push(Links, h, b))
    /\ Last(h, b)
    /\ UNCHANGED << sock_vars, buffer_vars, qrun, qb >>

io_queue_buffer_set_ready(b) == io_queue_buffer_set(b, "ready")
io_queue_buffer_set_inprogress(b) == io_queue_buffer_set(b, "inprogress")
io_queue_buffer_set_done(b) == io_queue_buffer_set(b, "done")

\* io_queue_pop_ready / _pop_inprogress / _pop_done
io_queue_pop(h, o) ==
    /\ SetLinks(io_queue_state_pop(Links, h))
    /\ Last(o, io_queue_state_head(Links, h))
    /\ UNCHANGED << sock_vars, buffer_vars, qrun, qb >>

io_queue_pop_ready == io_queue_pop("ready", "pop_ready")
io_queue_pop_inprogress == io_queue_pop("inprogress", "pop_inprogress")
io_queue_pop_done == io_queue_pop("done", "pop_done")

\* a rollback that splices the in-progress list in front of the ready head,
\* that is behind the last ready entry
io_queue_rollback_AtTail ==
    /\ SetLinks(DList_InitializeListHead(
                   DList_RemoveEntryList(
                       DList_AppendTailList(Links, "ready", "inprogress"),
                       "inprogress"),
                   "inprogress"))
    /\ Last("rollback", io_queue_state_head(Links, "inprogress"))
    /\ UNCHANGED << sock_vars, buffer_vars, qrun, qb >>

\* io_queue_rollback: splice the in-progress list in front of the first ready
\* entry, take the in-progress head out of the ring
io_queue_rollback ==
    /\ SetLinks(DList_InitializeListHead(
                   DList_RemoveEntryList(
                       DList_AppendTailList(Links, Flink["ready"], "inprogress"),
                       "inprogress"),
                   "inprogress"))
    /\ Last("rollback", io_queue_state_head(Links, "inprogress"))
    /\ UNCHANGED << sock_vars, buffer_vars, qrun, qb >>

\* an abort that leaves out the ready list
io_queue_abort_NoReady ==
    /\ qb' = io_queue_state_abort_no_lock(Links,
                 io_queue_state_abort_no_lock(Links, qb, "done"),
                 "inprogress")
    /\ Last("abort", "null")
    /\ UNCHANGED << sock_vars, buffer_vars, qrun, Flink, Blink >>

\* io_queue_abort: the callbacks of the done, in-progress and ready buffers
io_queue_abort ==
    /\ qb' = io_queue_state_abort_no_lock(Links,
                 io_queue_state_abort_no_lock(Links,
                     io_queue_state_abort_no_lock(Links, qb, "done"),
                     "inprogress"),
                 "ready")
    /\ Last("abort", "null")
    /\ UNCHANGED << sock_vars, buffer_vars, qrun, Flink, Blink >>

\* io_queue_buffer_release: callback, then unlink and free under the lock
io_queue_buffer_release(b) ==
    /\ qb[b].live
    /\ LET S == io_queue_release_buffer_no_lock(
                    [L |-> Links,
                     Q |-> [qb EXCEPT ![b] = io_queue_buffer_abort_callback(@)]], b)
       IN SetLinks(S.L) /\ qb' = S.Q
    /\ Last("release", b)
    /\ UNCHANGED << sock_vars, buffer_vars, qrun >>

\* io_queue_release_all_buffers: done, in-progress, ready
io_queue_release_all_buffers ==
    /\ LET n == Cardinality(BufIds)
           S == io_queue_state_release_no_lock(
                    io_queue_state_release_no_lock(
                        io_queue_state_release_no_lock(
                            [L |-> Links, Q |-> qb], "done", n),
                        "inprogress", n),
                    "ready", n)
       IN SetLinks(S.L) /\ qb' = S.Q
    /\ Last("release_all", "null")
    /\ UNCHANGED << sock_vars, buffer_vars, qrun >>

\* ---------------------------------------------------------------- io_queue, two threads
\* io_queue_buffer_release: if (!queue_buffer->queue) return;
\* queue = queue_buffer->queue; queue_buffer->queue = NULL
io_queue_buffer_release_begin(b) ==
    /\ qrun.rel.pc = "idle" /\ qb[b].live
    /\ qrun' = [qrun EXCEPT !.rel = [pc |-> "rel_read", buf |-> b, cb |-> FALSE]]
    /\ UNCHANGED << sock_vars, buffer_vars, Flink, Blink, qb, q_last >>

\* io_queue_buffer_abort_callback called by io_queue_buffer_release, outside
\* the lock: cb = queue_buffer->cb_ptr
io_queue_buffer_release_read ==
    /\ qrun.rel.pc = "rel_read"
    /\ qrun' = [qrun EXCEPT !.rel.pc = "rel_call", !.rel.cb = qb[qrun.rel.buf].cb]
    /\ UNCHANGED << sock_vars, buffer_vars, Flink, Blink, qb, q_last >>

\* the same call: queue_buffer->cb_ptr = NULL; if (cb) cb(ctx, er_aborted)
io_queue_buffer_release_call ==
    /\ qrun.rel.pc = "rel_call"
    /\ qb' = [qb EXCEPT ![qrun.rel.buf] =
                 [@ EXCEPT !.cb = FALSE,
                           !.aborted = IF qrun.rel.cb THEN @ + 1 ELSE @]]
    /\ qrun' = [qrun EXCEPT !.rel.pc = "rel_lock"]
    /\ UNCHANGED << sock_vars, buffer_vars, Flink, Blink, q_last >>

\* io_queue_buffer_release: lock_enter, io_queue_release_buffer_no_lock, lock_exit
io_queue_buffer_release_locked ==
    /\ qrun.rel.pc = "rel_lock" /\ ~qrun.lock
    /\ LET S == io_queue_release_buffer_no_lock([L |-> Links, Q |-> qb], qrun.rel.buf)
       IN SetLinks(S.L) /\ qb' = S.Q
    /\ Last("release", qrun.rel.buf)
    /\ qrun' = [qrun EXCEPT !.rel = QueueIdle.rel]
    /\ UNCHANGED << sock_vars, buffer_vars >>

\* io_queue_abort: lock_enter; the entries the three walks of
\* io_queue_state_abort_no_lock meet (the lists do not change under the lock)
io_queue_abort_begin ==
    /\ qrun.oth.pc = "idle" /\ ~qrun.lock
    /\ LET w == ListOf("done") \o ListOf("inprogress") \o ListOf("ready")
       IN /\ w # << >>
          /\ qrun' = [qrun EXCEPT !.lock = TRUE,
                                  !.oth = [QueueIdle.oth EXCEPT !.pc = "ab_read", !.todo = w]]
    /\ UNCHANGED << sock_vars, buffer_vars, Flink, Blink, qb, q_last >>

\* io_queue_buffer_abort_callback called by io_queue_state_abort_no_lock:
\* cb = queue_buffer->cb_ptr
io_queue_abort_read ==
    /\ qrun.oth.pc = "ab_read"
    /\ qrun' = [qrun EXCEPT !.oth.pc = "ab_call", !.oth.cb = qb[Head(qrun.oth.todo)].cb]
    /\ UNCHANGED << sock_vars, buffer_vars, Flink, Blink, qb, q_last >>

\* the same call: queue_buffer->cb_ptr = NULL; if (cb) cb(ctx, er_aborted);
\* then the next entry, or lock_exit after the last one
io_queue_abort_call ==
    /\ qrun.oth.pc = "ab_call"
    /\ qb' = [qb EXCEPT ![Head(qrun.oth.todo)] =
                 [@ EXCEPT !.cb = FALSE,
                           !.aborted = IF qrun.oth.cb THEN @ + 1 ELSE @]]
    /\ IF Len(qrun.oth.todo) > 1
       THEN /\ qrun' = [qrun EXCEPT !.oth.pc = "ab_read", !.oth.todo = Tail(@)]
            /\ UNCHANGED q_last
       ELSE /\ qrun' = [qrun EXCEPT !.lock = FALSE, !.oth = QueueIdle.oth]
            /\ Last("abort", "null")
    /\ UNCHANGED << sock_vars, buffer_vars, Flink, Blink >>

\* io_queue_buffer_set_*: if (!queue_buffer->queue) return; the list is h
io_queue_buffer_set_begin(b, h) ==
    /\ qrun.oth.pc = "idle" /\ qb[b].live
    /\ ~(qrun.rel.pc # "idle" /\ qrun.rel.buf = b)    \* queue_buffer->queue not NULL
    /\ qrun' = [qrun EXCEPT !.oth = [QueueIdle.oth EXCEPT !.pc = "set_push",
                                                         !.buf = b, !.h = h]]
    /\ UNCHANGED << sock_vars, buffer_vars, Flink, Blink, qb, q_last >>

\* io_queue_state_push under the lock.  On a buffer that was freed in between
\* the writes go to freed memory: they land and the freed buffer is in the list,
\* or the thread faults; the behaviour is undefined from there on and is
\* followed no further (pc "fault")
io_queue_buffer_set_locked ==
    /\ qrun.oth.pc = "set_push" /\ ~qrun.lock
    /\ IF qb[qrun.oth.buf].live
       THEN /\ SetLinks(io_queue_state_push(Links, qrun.oth.h, qrun.oth.buf))
            /\ Last(qrun.oth.h, qrun.oth.buf)
            /\ qrun' = [qrun EXCEPT !.oth = QueueIdle.oth]
       ELSE /\ qrun' = [qrun EXCEPT !.oth.pc = "fault"]
            /\ \/ /\ SetLinks(io_queue_state_push(Links, qrun.oth.h, qrun.oth.buf))
                  /\ Last(qrun.oth.h, qrun.oth.buf)
               \/ UNCHANGED << Flink, Blink, q_last >>
    /\ UNCHANGED << sock_vars, buffer_vars, qb >>

\* no access to freed memory has happened
NoFault == qrun.oth.pc # "fault"

\* the other thread is in no call and nobody holds the lock
OtherIdle == qrun.oth.pc = "idle" /\ ~qrun.lock

\* ---------------------------------------------------------------- io_queue_buffer
MaxLen == 3         \* largest buffer length
MaxData == 2        \* longest array handed to a write
Bytes == {1, 2}     \* byte values; 0 in a payload stands for a byte never written

\* the arrays of at most n bytes
RECURSIVE Arrays(_)
Arrays(n) ==
    IF n = 0 THEN { << >> }
    ELSE Arrays(n - 1) \cup { Append(a, x) : a \in { c \in Arrays(n - 1) : Len(c) = n - 1 },
                                             x \in Bytes }

NoBuffer == [live |-> FALSE, length |-> 0, read_offset |-> 0, write_offset |-> 0,
             payload |-> << >>]

BufferInit ==
    /\ iob = NoBuffer
    /\ io_last = [op |-> "none", len |-> 0, n |-> 0, data |-> << >>, fresh |-> FALSE,
                  res |-> "ok"]

\* memcpy(io_queue_buffer_to_ptr(b) + at, buf, n)
CopyIn(payload, at, buf, n) ==
    [i \in DOMAIN payload |-> IF i > at /\ i <= at + n THEN buf[i - at] ELSE payload[i]]

\* what memcpy(buf, io_queue_buffer_to_ptr(b) + at, n) can leave in buf: a byte
\* never written has any value
CopyOut(payload, at, n) ==
    { a \in Arrays(MaxLen) :
        /\ Len(a) = n
        /\ \A i \in 1 .. n : payload[at + i] # 0 => a[i] = payload[at + i] }

\* a write that does not clamp to the room left
Written_NoClamp(b, buf) ==
    IF Len(buf) = 0 THEN b
    ELSE [b EXCEPT !.payload = CopyIn(b.payload, b.write_offset, buf, Len(buf)),
                   !.write_offset = b.write_offset + Len(buf)]

\* the buffer after io_queue_buffer_write(b, buf, len)
Written(b, buf) ==
    IF Len(buf) = 0 THEN b
    ELSE LET write == Min(b.length - b.write_offset, Len(buf))
         IN [b EXCEPT !.payload = CopyIn(b.payload, b.write_offset, buf, write),
                      !.write_offset = b.write_offset + write]

\* io_queue_create_buffer(queue, payload, length, &created): the header is
\* zeroed, the payload region is not; a payload of `length` bytes is written
io_queue_create_buffer_payload(length, payload) ==
    /\ ~iob.live
    /\ Len(payload) \in {0, length}
    /\ iob' = Written([live |-> TRUE, length |-> length, read_offset |-> 0,
                       write_offset |-> 0, payload |-> [i \in 1 .. length |-> 0]],
                      payload)
    /\ io_last' = [op |-> "create", len |-> length, n |-> Len(payload), data |-> << >>,
                   fresh |-> FALSE, res |-> "ok"]
    /\ UNCHANGED << sock_vars, queue_vars >>

\* io_queue_buffer_write(queue_buffer, buf, len)
io_queue_buffer_write(buf) ==
    /\ iob.live
    /\ iob' = Written(iob, buf)
    /\ io_last' = [op |-> "write", len |-> Len(buf),
                   n |-> iob'.write_offset - iob.write_offset, data |-> buf,
                   fresh |-> (iob.read_offset = iob.write_offset), res |-> "ok"]
    /\ UNCHANGED << sock_vars, queue_vars >>

\* io_queue_buffer_read(queue_buffer, buf, len, &read)
io_queue_buffer_read(len) ==
    /\ iob.live
    /\ IF len = 0
       THEN /\ io_last' = [io_last EXCEPT !.op = "read", !.len = 0, !.data = << >>,
                                          !.fresh = FALSE, !.res = "ok"]
            /\ UNCHANGED iob
       ELSE LET available == iob.length - iob.read_offset
                read == Min(available, len)
            IN /\ \E a \in CopyOut(iob.payload, iob.read_offset, read) :
                     io_last' = [op |-> "read", len |-> len, n |-> read, data |-> a,
                                 fresh |-> FALSE, res |-> "ok"]
               /\ iob' = [iob EXCEPT !.read_offset = iob.read_offset + read]
    /\ UNCHANGED << sock_vars, queue_vars >>

\* io_queue_buffer_release of the buffer
io_queue_buffer_release_payload ==
    /\ iob.live
    /\ iob' = NoBuffer
    /\ io_last' = [op |-> "release", len |-> 0, n |-> 0, data |-> << >>,
                   fresh |-> FALSE, res |-> "ok"]
    /\ UNCHANGED << sock_vars, queue_vars >>

\* ---------------------------------------------------------------- specifications
NextQueue ==
    \/ \E b \in BufIds : io_queue_create_buffer(b)
    \/ \E b \in BufIds : io_queue_buffer_set_callback(b)
    \/ \E b \in BufIds : io_queue_buffer_set_ready(b)
    \/ \E b \in BufIds : io_queue_buffer_set_inprogress(b)
    \/ \E b \in BufIds : io_queue_buffer_set_done(b)
    \/ io_queue_pop_ready
    \/ io_queue_pop_inprogress
    \/ io_queue_pop_done
    \/ io_queue_rollback
    \/ io_queue_abort
    \/ \E b \in BufIds : io_queue_buffer_release(b)
    \/ io_queue_release_all_buffers

NextBuffer ==
    \/ \E l \in 0 .. MaxLen : \E p \in Arrays(MaxLen) : io_queue_create_buffer_payload(l, p)
    \/ \E d \in Arrays(MaxData) : io_queue_buffer_write(d)
    \/ \E l \in 0 .. MaxLen : io_queue_buffer_read(l)
    \/ io_queue_buffer_release_payload

\* a socket nobody uses
SockIdle == InitWith({}) /\ props = [sock_type |-> "stream", passive |-> FALSE]

InitQueue == SockIdle /\ QueueInit /\ BufferInit
SpecQueue == InitQueue /\ [][NextQueue]_vars

\* two threads on one queue: one releases a buffer, the other aborts, moves
\* or pops; buffers are created and callbacks attached between the calls
NextRace ==
    \/ \E b \in { BufOrder[1], BufOrder[2] } : qrun = QueueIdle /\ io_queue_create_buffer(b)
    \/ \E b \in BufIds : qrun = QueueIdle /\ io_queue_buffer_set_callback(b)
    \/ \E b \in BufIds : NoFault /\ io_queue_buffer_release_begin(b)
    \/ NoFault /\ io_queue_buffer_release_read
    \/ NoFault /\ io_queue_buffer_release_call
    \/ NoFault /\ io_queue_buffer_release_locked
    \/ io_queue_abort_begin
    \/ io_queue_abort_read
    \/ io_queue_abort_call
    \/ \E b \in BufIds, h \in Lists : io_queue_buffer_set_begin(b, h)
    \/ io_queue_buffer_set_locked
    \/ OtherIdle /\ io_queue_pop_ready
    \/ OtherIdle /\ io_queue_pop_inprogress
    \/ OtherIdle /\ io_queue_pop_done

SpecRace == InitQueue /\ [][NextRace]_vars

InitBuffer == SockIdle /\ QueueInit /\ BufferInit
SpecBuffer == InitBuffer /\ [][NextBuffer]_vars

\* ---------------------------------------------------------------- specification
\* the client saw its socket open
Opened == opened_status = "ok"

Next ==
    \/ \E t \in Callers : pal_socket_open(t)
    \/ \E t \in Threads : pal_socket_open_by_name_begin(t)
    \/ \E t \in Threads : pal_socket_open_by_addr_begin(t)
    \/ \E t \in Threads : pal_socket_open_by_addr_after(t)
    \/ \E t \in Threads : pal_socket_open_next_begin(t)
    \/ \E t \in Threads : pal_socket_open_next_after(t)
    \/ \E t \in Threads : pal_socket_open_complete(t)
    \/ \E t \in Threads : pal_socket_properties_to_fd(t)
    \/ \E t \in Threads : pal_socket_open_begin(t)
    \/ \E t \in Threads : pal_socket_async_connect_begin(t)
    \/ \E t \in Threads : pal_socket_async_connect_submit(t)
    \/ \E t \in Threads : pal_socket_async_connect_failed(t)
    \/ \E t \in Threads : pal_socket_connect_complete(t)
    \/ \E t \in Threads : pal_socket_bind(t)
    \/ \E t \in Threads : pal_socket_bind_listen(t)
    \/ \E t \in Threads : pal_socket_bind_return(t)
    \/ \E t \in Pool, o \in Ops : pal_socket_async_complete_from_OVERLAPPED(t, o)
    \/ \E t \in Threads : pal_socket_async_connect_complete(t)
    \/ \E t \in Threads : pal_socket_async_complete(t)
    \/ \E t \in Threads : pal_socket_async_complete_dec(t)
    \/ \E t \in Threads : pal_socket_async_accept_complete_fault(t)
    \/ \E t \in Threads : pal_socket_async_complete_loop(t)
    \/ \E t \in Threads : pal_socket_async_complete_exit(t)
    \/ \E t \in Threads : pal_socket_async_begin_event(t)
    \/ \E t \in Threads : pal_socket_async_begin_inc(t)
    \/ \E t \in Threads : pal_socket_async_begin_submit(t)
    \/ \E t \in Callers, ready \in BOOLEAN : Opened /\ pal_socket_can_send(t, ready)
    \/ \E t \in Callers, ready \in BOOLEAN : Opened /\ pal_socket_can_recv(t, ready)
    \/ \E t \in Threads : pal_socket_async_begin(t)
    \/ \E t \in Threads : pal_socket_async_begin_loop(t)
    \/ \E t \in Callers : pal_socket_close(t)
    \/ \E t \in Threads : pal_socket_async_cancel(t)
    \/ \E t \in Threads : pal_socket_async_close_begin(t)
    \/ \E t \in Threads : pal_socket_async_close_dec(t)
    \/ \E t \in Threads : pal_socket_async_close_inc(t)
    \/ \E t \in Threads : pal_socket_close_complete(t)
    \/ \E t \in Threads : pal_socket_close_check(t)
    \/ \E t \in Threads : pal_socket_close_fd(t)
    \/ \E t \in Threads : pal_socket_close_dispatch(t)

\* two caller threads and one pool thread
Init == InitWith({1, 2, 3}) /\ QueueInit /\ BufferInit
Spec == Init /\ [][Next]_vars

\* one caller thread and two pool threads
InitPool == InitWith({1, 3, 4}) /\ QueueInit /\ BufferInit
SpecPool == InitPool /\ [][Next]_vars

\* the client also signals buffers on a socket it never opened or whose open
\* failed, and shuts directions down: one caller thread and one pool thread
NextClient ==
    \/ Next
    \/ \E t \in Callers, ready \in BOOLEAN : ~Opened /\ pal_socket_can_send(t, ready)
    \/ \E t \in Callers, ready \in BOOLEAN : ~Opened /\ pal_socket_can_recv(t, ready)
    \/ \E how \in ShutdownOps, r \in {"ok", "err"} : pal_socket_setsockopt(how, r)

InitClient == InitWith({1, 3}) /\ QueueInit /\ BufferInit
SpecClient == InitClient /\ [][NextClient]_vars

\* a socket of any of four types, passive or not: one caller thread and one
\* pool thread
InitCreate ==
    /\ InitSocket({1, 3}, [sock_type : {"stream", "seqpacket", "dgram", "raw"},
                           passive : BOOLEAN])
    /\ QueueInit /\ BufferInit
SpecCreate == InitCreate /\ [][Next]_vars

TypeOK ==
    /\ sock_fd \in {"INVALID", "open", "stale"}
    /\ \A o \in Ops : pending[o] \in -4 .. 8 /\ os_out[o] \in 0 .. 4
    /\ os_fds \in 0 .. 4
    /\ closed \in 0 .. 4

\* ---------------------------------------------------------------- notions
\* a thread is inside an entry point or a completion callback
Active(t) == th[t].pc # "idle"

\* op o is quiescent: the OS owes it no completion and no thread runs a
\* call or a completion callback on it
OpQuiet(o) == /\ os_out[o] = 0
              /\ \A t \in Threads : Active(t) => th[t].op # o

\* nothing is running and nothing is outstanding
Quiescent == /\ \A t \in Threads : ~Active(t)
             /\ \A o \in Ops : os_out[o] = 0

\* thread t runs the begin loop of op o: it is at the head of the loop
\* about to call begin, or inside the begin function it called
InBeginLoop(t, o) ==
    /\ th[t].op = o
    /\ \/ th[t].pc = "ab_loop"
       \/ th[t].pc = "fo_loop" /\ th[t].flag
       \/ th[t].pc \in {"bg_cb", "bg_inc", "bg_os", "clb_check", "clb_dec", "clb_inc"}
       \/ th[t].fn # "none" /\ th[t].pc \in {"cmp_cb", "cmp_dec", "cc_ctx", "cc_check",
                                              "cc_fd", "cc_cb"}
          /\ Len(th[t].ret) >= 2

\* ---------------------------------------------------------------- claims
\* C1: every call of pal_socket_open results in exactly one `opened` event:
\* never more than one, and one once the open has settled (the call returned,
\* no connect is outstanding and no completion callback of open_op runs).
C1_OpenedExactlyOnce ==
    /\ opened <= 1
    /\ (open_called /\ OpQuiet("open")) => opened = 1

\* C2: after pal_socket_close, once every completion has been delivered and
\* every callback and call has returned, `closed` has been dispatched.
C2_ClosedDelivered ==
    (close_called /\ Quiescent) => closed >= 1

\* C3: for one pal_socket_close call `closed` is dispatched, and the descriptor
\* closed by pal_socket_close_complete, at most once.
C3_ClosedAtMostOnce == closed <= 1

\* C4: `closed` is dispatched only after the end_* event of every operation
\* whose begin_* supplied a buffer.
C4_ClosedAfterEnds ==
    closed > 0 => \A d \in Dirs : ends[d] = begins[d]

C6_OneAtATime ==
    \A d \in Dirs :
        /\ begins[d] - ends[d] <= 1
        /\ os_out[d] <= 1
        /\ Cardinality({t \in Threads : InBeginLoop(t, d)}) <= 1

\* C7: pending is never negative, and at least 1 while an OS call of the op is
\* outstanding or the op's begin loop is executing.
C7_PendingGuards ==
    \A o \in Ops :
        /\ pending[o] >= 0
        /\ (os_out[o] > 0 \/ \E t \in Threads : InBeginLoop(t, o)) => pending[o] >= 1

\* C8: at every quiescent point of an op its pending counter is 0.
C8_QuiescentPendingZero ==
    \A o \in Ops : OpQuiet(o) => pending[o] = 0

\* C8 witness: every op is quiescent after an open through the asynchronous
\* connect, a completed send and the close-shim
C8_Witness ==
    /\ \A o \in Ops : OpQuiet(o)
    /\ opened = 1 /\ ends["send"] >= 1 /\ closed >= 1

\* C9: the cascade starts an attempt on every address at most once, in list order.
C9_TriedInOrder ==
    \A i, j \in DOMAIN tried : i < j => tried[i] < tried[j]

\* C10: the cascade makes at most as many attempts as there are resolved
\* addresses, and `opened` with status connecting leaves the list freed.
C10_CascadeTerminates ==
    /\ Len(tried) <= prx_ai_count
    /\ (opened_status = "connecting" /\ OpQuiet("open"))
          => (~prx_ai /\ prx_ai_count = 0 /\ prx_ai_cur = 0)

\* C11: the cascade goes on to the next resolved address on every failure but
\* waiting: no step dispatches `opened` with an error while an untried address
\* i+1 remains in the list.
C11_AdvancesOnFailure ==
    [][(opened' > opened /\ opened_status' # "ok")
          => ~(prx_ai /\ prx_ai_cur + 1 < prx_ai_count)]_vars

\* C12: failures leak no descriptor: a descriptor open at the OS is the one in
\* sock_fd, sock_fd is invalid when an attempt starts and once `opened` was
\* dispatched with an error, and before a close no descriptor is closed twice.
C12_NoLeakedDescriptor ==
    /\ os_fds = (IF sock_fd = "open" THEN 1 ELSE 0)
    /\ \A t \in Threads : th[t].pc = "ob_fd" => sock_fd = "INVALID"
    /\ opened_status \notin {"none", "ok"} => sock_fd = "INVALID"
    /\ ~close_called => ~bad_close

\* C13: at most one overlapped connect of the socket is outstanding at the OS.
C13_OneConnectInFlight == os_out["open"] <= 1

\* C13 witness: the cascade made a second attempt and its connect is in flight
C13_Witness == os_out["open"] = 1 /\ Len(tried) >= 2

\* ---------------------------------------------------------------- queue notions
\* the links of the next state
LinksNext == [Flink |-> Flink', Blink |-> Blink']

\* the list q without buffer b
Without(q, b) == SelectSeq(q, LAMBDA x : x # b)

\* list h is a ring through its head: the walk along Flink comes back to the
\* head, Blink is the inverse of Flink on it, no entry occurs twice
Ring(h) ==
    LET q == ListOf(h)
        at(i) == IF i = 0 \/ i = Len(q) + 1 THEN h ELSE q[i]
    IN /\ \A i \in 0 .. Len(q) : Flink[at(i)] = at(i + 1) /\ Blink[at(i + 1)] = at(i)
       /\ Cardinality(Elems(q)) = Len(q)
       /\ Elems(q) \subseteq { b \in BufIds : qb[b].live }

\* C14: every live buffer is in exactly one of the three lists or detached, no
\* buffer occurs twice in a list (and each list is an intact ring).
C14_ExactlyOneList ==
    /\ \A h \in Lists : Ring(h)
    /\ \A h, g \in Lists : h # g => Elems(ListOf(h)) \cap Elems(ListOf(g)) = {}
    /\ \A b \in BufIds : (qb[b].live /\ b \notin Queued(Links))
                              => (Flink[b] = b /\ Blink[b] = b)

\* C14 witness: after a rollback all three buffers are queued, two in ready and
\* one in done
C14_Witness ==
    /\ q_last.op = "rollback"
    /\ Len(ListOf("ready")) = 2 /\ Len(ListOf("done")) = 1

\* C15: io_queue_rollback leaves ready = old in-progress followed by old ready,
\* in-progress empty and done unchanged.
C15_RollbackOrder ==
    [][io_queue_rollback =>
          /\ ListIn(LinksNext, "ready") = ListOf("inprogress") \o ListOf("ready")
          /\ ListIn(LinksNext, "inprogress") = << >>
          /\ ListIn(LinksNext, "done") = ListOf("done")]_vars

\* C15 witness: a rollback moved two in-progress buffers in front of a ready one
C15_Witness ==
    /\ q_last.op = "rollback" /\ q_last.buf # "null"
    /\ Len(ListOf("ready")) = 3
    /\ ListOf("ready")[1] = q_last.buf /\ ListOf("ready")[3] = "b1"

\* C16: io_queue_abort runs the attached callback of every queued buffer exactly
\* once with er_aborted and leaves every buffer in its list at its position.
C16_AbortKeepsLists ==
    [][io_queue_abort =>
          /\ Flink' = Flink /\ Blink' = Blink
          /\ \A b \in BufIds :
                IF b \in Queued(Links) /\ qb[b].cb
                THEN qb'[b] = [qb[b] EXCEPT !.cb = FALSE, !.aborted = qb[b].aborted + 1]
                ELSE qb'[b] = qb[b]]_vars

\* C16 witness: an abort ran the callbacks of a ready and of an in-progress buffer
C16_Witness ==
    /\ q_last.op = "abort"
    /\ \E b \in Elems(ListOf("ready")) : qb[b].aborted = 1
    /\ \E b \in Elems(ListOf("inprogress")) : qb[b].aborted = 1

\* C17: the lists are first-in first-out: set_* unlinks the buffer and appends
\* it to the target list, pop_* takes the head off and returns it detached, and
\* on an empty list returns null and changes nothing.
C17_Fifo ==
    [][/\ \A b \in BufIds, h \in Lists :
             io_queue_buffer_set(b, h) =>
                 \A g \in Lists :
                     ListIn(LinksNext, g) = IF g = h THEN Append(Without(ListOf(g), b), b)
                                            ELSE Without(ListOf(g), b)
       /\ \A h \in Lists, o \in {"pop_ready", "pop_inprogress", "pop_done"} :
             io_queue_pop(h, o) =>
                 IF ListOf(h) = << >>
                 THEN q_last'.buf = "null" /\ Flink' = Flink /\ Blink' = Blink
                 ELSE /\ q_last'.buf = Head(ListOf(h))
                      /\ ListIn(LinksNext, h) = Tail(ListOf(h))
                      /\ \A g \in Lists \ {h} : ListIn(LinksNext, g) = ListOf(g)
                      /\ Flink'[q_last'.buf] = q_last'.buf
                      /\ Blink'[q_last'.buf] = q_last'.buf]_vars

\* C17 witness: pop_ready returned the older of two ready buffers
C17_Witness ==
    /\ q_last.op = "pop_ready" /\ q_last.buf = "b2"
    /\ ListOf("ready") = << "b1" >>

\* C18: for the buffer, 0 <= read_offset <= write_offset <= length.
C18_OffsetsOrdered ==
    iob.live => /\ 0 <= iob.read_offset
                /\ iob.read_offset <= iob.write_offset
                /\ iob.write_offset <= iob.length

\* C19: a write of data that fits, on a buffer with nothing unread, followed by
\* a read with len >= |data| reads back exactly data, reports |data| and
\* advances the read offset by |data| (the write advanced the write offset by it).
C19_RoundTrip ==
    [][(/\ io_last.op = "write" /\ io_last.fresh /\ io_last.n = Len(io_last.data)
        /\ io_last'.op = "read" /\ io_last'.len >= Len(io_last.data))
          => /\ io_last'.data = io_last.data
             /\ io_last'.n = Len(io_last.data)
             /\ iob'.read_offset = iob.read_offset + Len(io_last.data)]_vars

\* C20: io_queue_buffer_write returns ok, advances write_offset by
\* min(len, length - write_offset), copies what fits and changes neither
\* read_offset nor length; with len = 0 nothing changes.
C20_WriteClamps ==
    [][\A d \in Arrays(MaxData) :
          io_queue_buffer_write(d) =>
              LET w == Min(Len(d), iob.length - iob.write_offset)
              IN /\ io_last'.res = "ok"
                 /\ iob'.write_offset = iob.write_offset + w
                 /\ iob'.read_offset = iob.read_offset
                 /\ iob'.length = iob.length
                 /\ Len(iob'.payload) = iob.length
                 /\ \A i \in 1 .. iob.length :
                       iob'.payload[i] = IF i > iob.write_offset /\ i <= iob.write_offset + w
                                         THEN d[i - iob.write_offset]
                                         ELSE iob.payload[i]]_vars

\* C20 witness: a write of two bytes into a buffer with room for one
C20_Witness ==
    /\ io_last.op = "write" /\ io_last.len = 2 /\ io_last.n = 1
    /\ iob.write_offset = iob.length

\* ---------------------------------------------------------------- close and shutdown
\* thread t runs the pal_socket_close call (a caller that is in no can_send,
\* can_recv or open call and runs no completion)
InClose(t) == Active(t) /\ th[t].op = "none"

\* the pal_socket_close call has returned
CloseReturned == close_called /\ \A t \in Threads : ~InClose(t)

\* C21: after pal_socket_close (here: once the call has returned) no
\* begin_send, begin_recv or begin_accept event is dispatched for the socket.
C21_NoBeginAfterClose ==
    [][CloseReturned => \A t \in Threads : ~pal_socket_async_begin_event(t)]_vars

\* the threads inside a flavor begin function of direction d that have not
\* yet dispatched their begin_* event, in the state with thread records f
AtBeginEvent(f, d) == { t \in DOMAIN f : f[t].pc = "bg_cb" /\ f[t].op = d }

\* C22 as written: after setsockopt(shutdown) silenced a direction, no further
\* begin_* event of that direction is dispatched (read silences begin_recv and
\* begin_accept, write silences begin_send, both silences both).
C22_ShutdownSilences ==
    [][\A t \in Threads :
          (th[t].op \in Dirs /\ shut[th[t].op]) => ~pal_socket_async_begin_event(t)]_vars

\* C22 as amended: after setsockopt(shutdown) silenced a direction, no begin
\* function of that direction is entered any more, so that only a begin
\* function that was already running can still dispatch its begin_* event.
C22_NoBeginEntered ==
    [][\A d \in Dirs :
          shut[d] => Cardinality(AtBeginEvent(th', d)) <= Cardinality(AtBeginEvent(th, d))]_vars

\* C22 witness: after shutdown(read) and a completed receive the receive side is
\* silent while a begin function of the send side is about to dispatch begin_send
C22_Witness ==
    /\ shut["recv"] /\ ~shut["send"]
    /\ begin["recv"] = "no_op" /\ begin["send"] = "send_begin"
    /\ ends["recv"] >= 1 /\ AtBeginEvent(th, "recv") = {}
    /\ AtBeginEvent(th, "send") # {}

\* ---------------------------------------------------------------- can_send, can_recv
\* the threads that entered pal_socket_async_begin from can_send / can_recv
Driving(f) == { t \in DOMAIN f : f[t].pc = "ab_check" }

\* the socket was never opened, its open failed, or it is closed
NotOpen ==
    \/ ~open_called
    \/ opened >= 1 /\ opened_status # "ok"
    \/ closed >= 1

\* C23: pal_socket_can_send / pal_socket_can_recv return the closed error and
\* drive nothing on a socket that was never opened, whose open failed or that
\* is closed; on an open socket they return ok, and run the op's drive loop
\* exactly when ready is true.
C23_CanSendCanRecv ==
    [][\A t \in Callers, d \in Dirs, ready \in BOOLEAN :
          pal_socket_can(t, d, ready) =>
              IF NotOpen
              THEN /\ pal_socket_can_result = "closed"
                   /\ Cardinality(Driving(th')) = Cardinality(Driving(th))
              ELSE (Opened /\ ~close_called) =>
                   /\ pal_socket_can_result = "ok"
                   /\ Cardinality(Driving(th')) =
                         Cardinality(Driving(th)) + (IF ready THEN 1 ELSE 0)]_vars

\* ---------------------------------------------------------------- local completion
\* thread t completes the operation of its begin function locally: the
\* complete function was called from the begin function, not by the OS
LocalCompletion(t) ==
    /\ th[t].pc \in {"cmp_cb", "cmp_dec"}
    /\ th[t].ret # << >> /\ Head(th[t].ret) = "bg_ret"

\* the value the begin function of thread record r returns to its loop
BeginReturns(r) == Settle(Pop(r)).flag

\* C24: when the submit of a send, sendto, recv or recvfrom begin fails
\* synchronously, the end_* event is dispatched at once with a non-ok status,
\* the complete function takes back the begin's increment of pending, and the
\* begin function returns false.
C24_SyncFailureCompletes ==
    [][\A t \in Threads :
          (LocalCompletion(t) /\ ~IsAccept(th[t].fn)) =>
              /\ pal_socket_async_complete(t) => th[t].res # "ok"
              /\ pal_socket_async_complete_dec(t) =>
                    /\ pending'[th[t].op] = pending[th[t].op] - 1
                    /\ ~BeginReturns(th[t])]_vars

\* ---------------------------------------------------------------- accept
\* thread t is about to dispatch the end_accept of an accept that failed:
\* inside the accept begin, or through the completion the OS delivered
AcceptFailed(t) ==
    /\ th[t].pc = "cmp_cb" /\ th[t].op = "recv" /\ props.passive
    /\ LocalCompletion(t) \/ th[t].res # "ok"

\* C25: when an accept fails, end_accept is dispatched with the error status,
\* and afterwards the accepted socket object is freed with its descriptor.
C25_AcceptFailure ==
    [][\A t \in Threads :
          (AcceptFailed(t) /\ pal_socket_async_complete(t)) =>
              (th[t].res = "err" /\ acc_objs' = 0)]_vars

\* ---------------------------------------------------------------- op state
\* C26: every end_* event hands back what the client supplied in the matching
\* begin_* event (buffer and op-context are stored and cleared together in the
\* op, so the op still holds the begin's values when the event is dispatched),
\* and after the event the op's state is cleared.
C26_EndHandsBack ==
    [][\A t \in Threads :
          pal_socket_async_complete(t) =>
              /\ buffer[th[t].op] # "null"
              /\ buffer'[th[t].op] = "null"]_vars

\* ---------------------------------------------------------------- pending
\* no thread is inside a call or a callback of the socket
AtRest == \A t \in Threads : ~Active(t)

\* C27: whenever the descriptor is invalid, the pending counters of the open,
\* send and recv ops sum to 0 (here: in the states in which no thread is
\* inside a call or a callback of the socket).
C27_InvalidMeansNonePending == 
    (sock_fd = "INVALID" /\ AtRest) =>
        pending["open"] + pending["send"] + pending["recv"] = 0

\* C28: no lost wake-up: a buffer signalled with pal_socket_can_send(true) or
\* pal_socket_can_recv(true) on an open socket that is neither closing nor shut
\* down is picked up by a begin event; the op never comes to rest (no
\* completion owed, no thread on the op) with the signal still unanswered.
C28_NoLostWakeup ==
    \A d \in Dirs : ~(want[d] /\ Signals(d) /\ OpQuiet(d))

\* C29: once pal_socket_close has installed the close-shim, the begin of each
\* of the three ops is the close-shim until the `closed` event is dispatched;
\* no later call (setsockopt with prx_so_shutdown in particular) replaces it.
C29_ShimStays ==
    [][\A o \in Ops :
         (begin[o] = "close_begin" /\ closed' = 0) => begin'[o] = "close_begin"]_vars

\* C30: after pal_socket_close was called while a connect of the cascade was
\* in flight, the cascade creates no new descriptor, starts no new connect
\* attempt, and no `opened` event with status ok is dispatched.
C30_NoCascadeAfterClose ==
    [][connect_at_close =>
         /\ os_fds' <= os_fds
         /\ os_out'["open"] <= os_out["open"]
         /\ ~(opened' > opened /\ opened_status' = "ok")]_vars

\* ---------------------------------------------------------------- io_queue claims, C31..C32
\* C31: io_queue_buffer_release running concurrently with io_queue_abort, a
\* set_* transition or a pop_* on another thread: the callback of a buffer is
\* invoked at most once and the three lists stay well formed.
C31_ReleaseAtomic ==
    /\ \A b \in BufIds : qb[b].aborted <= 1
    /\ \A h \in Lists : Ring(h)

\* the step reaches buffer b: it releases it, or it aborts or releases the
\* lists and b is in one of them
Reaches(b) ==
    \/ io_queue_buffer_release(b)
    \/ (io_queue_abort \/ io_queue_release_all_buffers) /\ b \in Queued(Links)

\* C32: the callback attached to a buffer is one-shot: io_queue_abort,
\* io_queue_buffer_release and io_queue_release_all_buffers, in any sequential
\* order, invoke it at most once, and it is the first of them that reaches
\* the buffer that invokes it; io_queue_release_all_buffers leaves the three
\* lists empty.
C32_OneShot ==
    [][/\ \A b \in BufIds :
            /\ qb'[b].aborted <= 1
            /\ (Reaches(b) /\ qb[b].cb)
                   => (qb'[b].aborted = qb[b].aborted + 1 /\ ~qb'[b].cb)
            /\ (Reaches(b) /\ ~qb[b].cb) => qb'[b].aborted = qb[b].aborted
       /\ io_queue_release_all_buffers
             => \A h \in Lists : ListIn(LinksNext, h) = << >>]_vars

\* C32 witness: io_queue_release_all_buffers has emptied the lists, after the
\* callbacks of two buffers ran once each and a third buffer had none
C32_Witness ==
    /\ q_last.op = "release_all"
    /\ \A h \in Lists : ListOf(h) = << >>
    /\ Cardinality({ b \in BufIds : ~qb[b].live /\ qb[b].aborted = 1 }) = 2
    /\ \E b \in BufIds : ~qb[b].live /\ qb[b].aborted = 0

\* ---------------------------------------------------------------- open claims, C33..C38
\* C33: every `opened` event carries the op context that was passed to
\* pal_socket_open, also when the cascade reaches its outcome after connect
\* attempts that failed asynchronously.
C33_OpenedCarriesContext == opened >= 1 => opened_ctx = "ctx"

\* C34: the value pal_socket_open returns and the `opened` event agree: a
\* non-ok return means no `opened` event is ever dispatched for the call, an
\* ok return means exactly one is (once the open has settled).
C34_ReturnAgrees ==
    /\ open_ret \notin {"none", "ok"} => opened = 0
    /\ open_ret = "ok" => opened <= 1
    /\ (open_ret = "ok" /\ OpQuiet("open")) => opened = 1

\* C35: a setsockopt(prx_so_shutdown, v) call that returns an error (v does
\* not translate, or the shutdown system call fails) mutates no engine state:
\* send_op.begin and recv_op.begin are what they were before the call.
C35_FailedShutdownKeepsBegin ==
    [][\A how \in ShutdownOps :
         pal_socket_setsockopt(how, "err") => begin' = begin]_vars

\* C36: when an accept completes with ok the listener receives end_accept
\* with the accepted socket and then the accepted socket's own client
\* interface receives exactly one `opened` event with status ok; when the
\* accept completes with an error the accepted socket receives no event.
C36_AcceptedOpened ==
    [][\A t \in Threads :
          (AcceptOp(th[t]) /\ pal_socket_async_complete(t)) =>
              /\ ends'["recv"] = ends["recv"] + 1
              /\ acc_opened' = IF AcceptFailed(t) THEN 0 ELSE 1]_vars

CascadeQuiescent ==
    /\ open_ret = "ok" /\ opened = 0 /\ ~close_called
    /\ os_out["open"] >= 1
    /\ AtRest

C39_CreateBindsOps ==
    /\ (~open_called /\ ~close_called) =>
          /\ sock_fd = "INVALID"
          /\ \A o \in Ops : pending[o] = 0
          /\ begin["open"] = "no_op"
          /\ props.sock_type \in {"dgram", "raw"} =>
                begin["send"] = "sendto_begin" /\ begin["recv"] = "recvfrom_begin"
          /\ (props.sock_type \notin {"dgram", "raw"} /\ props.passive) =>
                begin["send"] = "no_op" /\ begin["recv"] = "accept_begin"
          /\ (props.sock_type \notin {"dgram", "raw"} /\ ~props.passive) =>
                begin["send"] = "send_begin" /\ begin["recv"] = "recv_begin"
    /\ (~DgramLike(props) /\ props.passive) => begins["send"] = 0

\* C39 witness: pal_socket_can_send(sock, true) runs the send loop of an opened
\* listener of a type other than stream.
C39_Witness ==
    /\ props.sock_type = "seqpacket" /\ props.passive /\ Opened
    /\ \E t \in Threads : th[t].pc = "ab_loop" /\ th[t].op = "send"

\* C40: the debug assertion of the close-shim holds whenever it is evaluated:
\* each time pal_socket_async_close_begin decrements a pending counter that was
\* not 0, the counter is 0 right after the decrement.
C40_ShimAssertion ==
    [][\A t \in Threads :
          pal_socket_async_close_dec(t) => pending'[th[t].op] = 0]_vars

====
